---- MODULE Spec2Model ----
(***************************************************************************)
(* Menu navigation engine of Free_Finance (src/interface/menu_handler.py). *)
(*                                                                         *)
(* The program is a chain of nested get_user_choice loops.  Each loop      *)
(* belongs to one call of main_menu or menu_maker and owns the option list *)
(* (choices_and_funcs) that call took from menu_holder.  One step of the   *)
(* model is one iteration of the innermost loop: read a line, resolve it,  *)
(* dispatch the bound action.  An action that shows a menu opens a new     *)
(* innermost loop; the loops below it stay suspended on the call stack.    *)
(* Strings typed by the user are sequences of one-character strings.       *)
(***************************************************************************)
EXTENDS Integers, Sequences, FiniteSets, TLC

(* ------------------------------ bounds --------------------------------- *)
\* deepest nesting of menu loops explored
MaxDepth == 5
\* largest integer whose decimal text is offered as input
MaxInt == 10
\* smallest integer offered is -MaxNeg
MaxNeg == 2
\* most blanks put before or after a numeral
MaxPad == 1
\* largest integer whose decimal text is also offered with blanks around it
MaxPadInt == 3
\* longest option list get_user_choice is started on outside the registry
MaxOptions == 2
\* most entries of Budget.current_debt
MaxDebts == 3

(* ------------------------------ strings -------------------------------- *)
DecimalChars == {"0", "1", "2", "3", "4", "5", "6", "7", "8", "9"}

\* "sup2" stands for the one-character string U+00B2 (superscript two):
\* a character of Unicode class No that str.isdigit accepts and int rejects.
DigitChars == DecimalChars \cup {"sup2"}

\* characters str.isnumeric accepts
NumericChars == DigitChars

DecVal(c) ==
    CASE c = "0" -> 0 [] c = "1" -> 1 [] c = "2" -> 2 [] c = "3" -> 3
      [] c = "4" -> 4 [] c = "5" -> 5 [] c = "6" -> 6 [] c = "7" -> 7
      [] c = "8" -> 8 [] c = "9" -> 9

DecChar(d) ==
    CASE d = 0 -> "0" [] d = 1 -> "1" [] d = 2 -> "2" [] d = 3 -> "3"
      [] d = 4 -> "4" [] d = 5 -> "5" [] d = 6 -> "6" [] d = 7 -> "7"
      [] d = 8 -> "8" [] d = 9 -> "9"

\* IsDigit gone wrong: some character is a digit character
IsDigit_AnyChar(s) == Len(s) > 0 /\ \E k \in 1..Len(s) : s[k] \in DigitChars

\* str.isdigit(): non-empty and every character is a digit character
IsDigit(s) == Len(s) > 0 /\ \A k \in 1..Len(s) : s[k] \in DigitChars

RECURSIVE DecimalValue(_)
DecimalValue(s) ==
    IF s = <<>> THEN 0
    ELSE 10 * DecimalValue(SubSeq(s, 1, Len(s) - 1)) + DecVal(s[Len(s)])

\* int(s) for a string that passed isdigit(): the value, or ValueError when
\* a character is a digit character but not a decimal one
IntOf(s) ==
    IF \A k \in 1..Len(s) : s[k] \in DecimalChars
    THEN [ok |-> TRUE, val |-> DecimalValue(s)]
    ELSE [ok |-> FALSE, val |-> 0]

RECURSIVE NatStr(_)
NatStr(n) ==
    IF n < 10 THEN <<DecChar(n)>>
    ELSE NatStr(n \div 10) \o <<DecChar(n % 10)>>

\* str(i): the decimal text of an integer
Str(i) == IF i < 0 THEN <<"-">> \o NatStr(0 - i) ELSE NatStr(i)

Blanks(n) == [k \in 1..n |-> " "]

\* the numerals str(i), bare and surrounded by blanks
Numerals == {Str(i) : i \in (0 - MaxNeg)..MaxInt}
Padded ==
    {Blanks(l) \o n \o Blanks(r) :
        l \in 0..MaxPad, r \in 0..MaxPad, n \in {Str(i) : i \in 1..MaxPadInt}}

\* lines that are no numeral: empty, letters, mixed, a leading zero, a
\* non-decimal digit character
OtherLines == {<<>>, <<"a">>, <<"1", "a">>, <<" ">>, <<"0", "1">>, <<"sup2">>, <<"1", ".", "0">>}

Inputs == Numerals \cup Padded \cup OtherLines
(* ------------------------------ registry ------------------------------- *)
None == "None"
\* accounts a user may pick in the account list
Users == {"alice", "bob"}

\* The bound actions of the registry.  kind is
\*   "exit"       the builtin exit
\*   "main_menu"  the function main_menu
\*   "menu_maker" lambda: menu_maker(key, active_user)
\*   "collab"     a collaborator fn, called with arg ("-" when it takes none)
\*   "str"        the placeholder string 'test'
Act(kind, fn, key, arg) == [kind |-> kind, fn |-> fn, key |-> key, arg |-> arg]
ExitAct == Act("exit", "exit", "-", "-")
\* MainMenuAct gone wrong: "return" shows the parent menu of the submenus
MainMenuAct_Parent == Act("menu_maker", "menu_maker", "User Account Menu", None)

MainMenuAct == Act("main_menu", "main_menu", "-", "-")
\* MenuMakerAct gone wrong: the name asked for is not the registry's key
MenuMakerAct_Misspelt(key, user) ==
    Act("menu_maker", "menu_maker", IF key = "Budgeted" THEN "Budget" ELSE key, user)

\* MenuMakerAct gone wrong: the lambda does not pass the active user on
MenuMakerAct_NoUser(key, user) == Act("menu_maker", "menu_maker", key, None)

MenuMakerAct(key, user) == Act("menu_maker", "menu_maker", key, user)
Collab(fn, arg) == Act("collab", fn, "-", arg)
TestStr == Act("str", "test", "-", "-")

\* Callable gone wrong: the test is left out
Callable_Always(action) == TRUE

\* callable(action)
Callable(action) == action.kind # "str"

\* CreateAccountMenu gone wrong: a number is skipped
CreateAccountMenu_Gap == <<
    <<1, "Run Create Account Program", Collab("create_new_account_interface", "-")>>,
    <<3, "Return to Main Menu", MainMenuAct>> >>

\* CreateAccountMenu gone wrong: no way back to the Main Menu
CreateAccountMenu_NoReturn == <<
    <<1, "Run Create Account Program", Collab("create_new_account_interface", "-")>>,
    <<2, "Create Another Account", Collab("create_new_account_interface", "-")>> >>

\* the 'Create Account' entry of the registry
CreateAccountMenu == <<
    <<1, "Run Create Account Program", Collab("create_new_account_interface", "-")>>,
    <<2, "Return to Main Menu", MainMenuAct>> >>

menu_holder(active_user) ==
    [k \in {"Main Menu", "Create Account", "User Account Menu", "Bill Tracker",
            "Budgeted", "Personal Market Watch"} |->
     CASE k = "Main Menu" -> <<
            <<1, "Choose Account", Collab("display_account_list", "-")>>,
            <<2, "Create Account", Collab("create_new_account_interface", "-")>>,
            <<3, "Exit", ExitAct>> >>
       [] k = "Create Account" -> CreateAccountMenu
       [] k = "User Account Menu" -> <<
            <<1, "View Balances", Collab("transaction_view_balance", active_user)>>,
            <<2, "Deposit", Collab("transaction_interaction_deposit", active_user)>>,
            <<3, "Withdrawal", Collab("transaction_interaction_withdrawal", active_user)>>,
            <<4, "View Bill Tracker", MenuMakerAct("Bill Tracker", active_user)>>,
            <<5, "View Budget", MenuMakerAct("Budgeted", active_user)>>,
            <<6, "Personal Market Watch", MenuMakerAct("Personal Market Watch", active_user)>>,
            <<7, "Return to Main Menu", MainMenuAct>> >>
       [] k = "Bill Tracker" -> <<
            <<1, "Add Bill", Collab("user_add_bill", active_user)>>,
            <<2, "Remove Bill", Collab("user_remove_bill", active_user)>>,
            <<3, "View Current List of All Bills", Collab("user_get_bill_reminders", active_user)>>,
            <<4, "Return to Main Menu", MainMenuAct>> >>
       [] k = "Budgeted" -> <<
            <<1, "Current Budget", TestStr>>,
            <<2, "New Budget", TestStr>>,
            <<3, "Remove Budget", TestStr>>,
            <<4, "Update Budget", TestStr>>,
            <<5, "Return to Main Menu", MainMenuAct>> >>
       [] k = "Personal Market Watch" -> <<
            <<1, "Indexes - Global", Collab("user_view_global_indexes", "-")>>,
            <<2, "Indexes - By Region", Collab("user_view_indexes_by_region", "-")>>,
            <<3, "Set Favorite Index's", Collab("user_set_favorite_index", "-")>>,
            <<4, "Indexes - Favorites", Collab("user_view_favorite_index", "-")>>,
            <<5, "Stocks - Watch List", Collab("user_view_stock_watchlist", "-")>>,
            <<6, "Stocks - Add to Watchlist", Collab("user_add_to_stock_watchlist", "-")>>,
            <<7, "Search Stock data", Collab("user_search_stock_data", "-")>>,
            <<8, "Return to Main Menu", MainMenuAct>> >>]

(* ------------------------------- output -------------------------------- *)
\* what one loop iteration writes to the terminal, in order
Out(out, num, text) == [out |-> out, num |-> num, text |-> text]
InvalidInputMsg == Out("msg", 0, "Invalid input. Please enter a number.")
InvalidChoiceMsg == Out("msg", 0, "Invalid choice. Please select a valid number.")
\* print(f"'{description}' is not a valid option.")
NotValidOptionMsg(description) == Out("not_a_valid_option", 0, description)
\* print(f"Menu '{menu_key}' not found.")
MenuNotFoundMsg(menu_key) == Out("menu_not_found", 0, menu_key)

menu_header(header_title) == <<Out("header", 0, header_title)>>

menu_choices(choices_and_functions) ==
    [k \in 1..Len(choices_and_functions) |->
        Out("choice", choices_and_functions[k][1], choices_and_functions[k][2])]
    \o <<Out("rule", 0, "******************************")>>
(* ------------------------------- state --------------------------------- *)
VARIABLES
    stack,          \* the suspended and the innermost get_user_choice loops, innermost last
    raised,         \* "None" while the innermost loop waits at its prompt, else the exception that ended the process
    string_choice,  \* the line the last iteration read
    invoked,        \* the actions the last iteration called, in order
    requested,      \* the menu_maker calls made during the last iteration
    printed,        \* what the last iteration (or the start) wrote to the terminal
    current_debt,   \* Budget.current_debt
    debt_call,      \* the arguments of the last add_remove_debt call
    debt_printed    \* what the last add_remove_debt call printed

budgetVars == <<current_debt, debt_call, debt_printed>>
vars == <<stack, raised, string_choice, invoked, requested, printed,
          current_debt, debt_call, debt_printed>>

\* one get_user_choice loop: the menu it serves, the user its registry was
\* built for, and its parameter choices_and_funcs
Frame(header, active_user, choices_and_funcs) ==
    [header |-> header, active_user |-> active_user, choices_and_funcs |-> choices_and_funcs]

\* what calling something does before control reaches the next prompt:
\* menu_maker calls made, loops opened, terminal output, exception raised
Eff(req, push, out, exc) == [req |-> req, push |-> push, out |-> out, exc |-> exc]

\* a call menu_maker(menu_key, active_user)
Request(menu_key, active_user) == [menu_key |-> menu_key, active_user |-> active_user]

\* menu_maker gone wrong: the registry is indexed without the membership
\* test, so a missing key raises KeyError
menu_maker_NoCheck(menu_key, active_user) ==
    LET menu_list == menu_holder(active_user) IN
    IF menu_key \in DOMAIN menu_list
    THEN LET choices_and_funcs == menu_list[menu_key] IN
         Eff(<<Request(menu_key, active_user)>>,
             <<Frame(menu_key, active_user, choices_and_funcs)>>,
             menu_header(menu_key) \o menu_choices(choices_and_funcs), "None")
    ELSE Eff(<<Request(menu_key, active_user)>>, <<>>, <<>>, "KeyError")

menu_maker(menu_key, active_user) ==
    LET menu_list == menu_holder(active_user) IN
    IF menu_key \in DOMAIN menu_list
    THEN LET choices_and_funcs == menu_list[menu_key] IN
         Eff(<<Request(menu_key, active_user)>>,
             <<Frame(menu_key, active_user, choices_and_funcs)>>,
             menu_header(menu_key) \o menu_choices(choices_and_funcs), "None")
    ELSE Eff(<<Request(menu_key, active_user)>>, <<>>, <<MenuNotFoundMsg(menu_key)>>, "None")

\* main_menu gone wrong: the option list is taken from another key
main_menu_WrongKey ==
    LET menu_list == menu_holder(None) IN
    IF "Main Menu" \in DOMAIN menu_list
    THEN LET choices_and_funcs == menu_list["Create Account"] IN
         Eff(<<>>, <<Frame("Main Menu", None, choices_and_funcs)>>,
             menu_header("Main Menu") \o menu_choices(choices_and_funcs), "None")
    ELSE Eff(<<>>, <<>>, <<>>, "None")

\* main_menu gone wrong: the registry is built for a user
main_menu_StaleUser ==
    LET menu_list == menu_holder("alice") IN
    IF "Main Menu" \in DOMAIN menu_list
    THEN LET choices_and_funcs == menu_list["Main Menu"] IN
         Eff(<<>>, <<Frame("Main Menu", "alice", choices_and_funcs)>>,
             menu_header("Main Menu") \o menu_choices(choices_and_funcs), "None")
    ELSE Eff(<<>>, <<>>, <<>>, "None")

main_menu ==
    LET menu_list == menu_holder(None) IN
    IF "Main Menu" \in DOMAIN menu_list
    THEN LET choices_and_funcs == menu_list["Main Menu"] IN
         Eff(<<>>, <<Frame("Main Menu", None, choices_and_funcs)>>,
             menu_header("Main Menu") \o menu_choices(choices_and_funcs), "None")
    ELSE Eff(<<>>, <<>>, <<>>, "None")

(* ---------------------------- collaborators ---------------------------- *)
\* a menu name no registry holds
MissingMenu == "Account Menu"

\* The collaborators live outside menu_handler.py.  From the engine's side a
\* call of one returns, raises, or (a sub-flow) asks menu_maker for a menu:
\* the account list opens the account menu of the user picked, the account
\* creator may open the "Create Account" menu.
CollabEffects(fn) ==
    {Eff(<<>>, <<>>, <<>>, "None"), Eff(<<>>, <<>>, <<>>, "Exception")}
    \cup (IF fn = "display_account_list"
          THEN {menu_maker(k, u) : k \in {"User Account Menu", MissingMenu}, u \in Users}
          ELSE {})
    \cup (IF fn = "create_new_account_interface"
          THEN {menu_maker("Create Account", None)}
          ELSE {})

\* Call gone wrong: exit is a function that returns (the exit_program
\* placeholder of the module docstring)
Call_ExitReturns(action) ==
    CASE action.kind = "exit" -> {Eff(<<>>, <<>>, <<>>, "None")}
      [] action.kind = "main_menu" -> {main_menu}
      [] action.kind = "menu_maker" -> {menu_maker(action.key, action.arg)}
      [] action.kind = "collab" -> CollabEffects(action.fn)
      [] action.kind = "str" -> {Eff(<<>>, <<>>, <<>>, "TypeError")}

\* action(): the possible effects of calling a callable registry action
Call(action) ==
    CASE action.kind = "exit" -> {Eff(<<>>, <<>>, <<>>, "SystemExit")}
      [] action.kind = "main_menu" -> {main_menu}
      [] action.kind = "menu_maker" -> {menu_maker(action.key, action.arg)}
      [] action.kind = "collab" -> CollabEffects(action.fn)
      \* 'test'(): a str is not callable
      [] action.kind = "str" -> {Eff(<<>>, <<>>, <<>>, "TypeError")}

(* ----------------------------- the loop -------------------------------- *)
Top == stack[Len(stack)]

Invocation(header, number, action) == [header |-> header, number |-> number, action |-> action]

\* InRange gone wrong: the lower bound is 0
InRange_FromZero(int_choice, choices_and_funcs) ==
    0 <= int_choice /\ int_choice <= Len(choices_and_funcs)

\* 1 <= int_choice <= len(choices_and_funcs)
InRange(int_choice, choices_and_funcs) ==
    1 <= int_choice /\ int_choice <= Len(choices_and_funcs)

\* choices_and_funcs[int_choice - 1]: Python lists count from 0 and a
\* negative index counts from the end; sequences count from 1
Select(choices_and_funcs, int_choice) ==
    LET index == int_choice - 1 IN
    IF index < 0
    THEN choices_and_funcs[Len(choices_and_funcs) + index + 1]
    ELSE choices_and_funcs[index + 1]

\* the iteration ends by an exception leaving every loop
Raise(exc, inv, out) ==
    /\ raised' = exc
    /\ invoked' = inv
    /\ requested' = <<>>
    /\ printed' = out
    /\ UNCHANGED stack

\* the iteration ends back at `while True` of the same loop
Reprompt(inv, out) ==
    /\ invoked' = inv
    /\ requested' = <<>>
    /\ printed' = out
    /\ UNCHANGED <<stack, raised>>

\* Called gone wrong: a menu opened takes the place of the loop that asked
\* for it, as if that loop had returned
Called_Replaces(inv, e) ==
    /\ Len(stack) + Len(e.push) <= MaxDepth
    /\ stack' = IF e.push = <<>> THEN stack
                ELSE SubSeq(stack, 1, Len(stack) - 1) \o e.push
    /\ raised' = e.exc
    /\ invoked' = inv
    /\ requested' = e.req
    /\ printed' = e.out

\* the callable action was called and did e
Called(inv, e) ==
    /\ Len(stack) + Len(e.push) <= MaxDepth
    /\ stack' = stack \o e.push
    /\ raised' = e.exc
    /\ invoked' = inv
    /\ requested' = e.req
    /\ printed' = e.out

\* one iteration of `while True` in the innermost loop, reading line s
get_user_choice(s) ==
    /\ raised = "None"
    /\ string_choice' = s
    /\ UNCHANGED budgetVars
    /\ LET choices_and_funcs == Top.choices_and_funcs IN
       IF IsDigit(s)
       THEN LET parsed == IntOf(s)
                int_choice == parsed.val IN
            IF ~parsed.ok
            THEN Raise("ValueError", <<>>, <<>>)
            ELSE IF Len(choices_and_funcs) = 1
            THEN \* choices_and_funcs(): a list is not callable
                 Raise("TypeError", <<>>, <<>>)
            ELSE IF InRange(int_choice, choices_and_funcs)
            THEN LET number == Select(choices_and_funcs, int_choice)[1]
                     description == Select(choices_and_funcs, int_choice)[2]
                     action == Select(choices_and_funcs, int_choice)[3] IN
                 IF Callable(action)
                 THEN \E e \in Call(action) :
                        Called(<<Invocation(Top.header, number, action)>>, e)
                 ELSE Reprompt(<<>>, <<NotValidOptionMsg(description)>>)
            ELSE Reprompt(<<>>, <<InvalidChoiceMsg>>)
       ELSE Reprompt(<<>>, <<InvalidInputMsg>>)

(* ------------------------------- Budget -------------------------------- *)
\* the values add_or_remove is compared with
ADD == "add"
REMOVE == "remove"

\* Python values of two types: a str never equals a dict
PyStr(text) == [type |-> "str", val |-> <<text>>]
\* {'debt_name': debt_name, 'debt_total': debt_total}
PyDict(debt_name, debt_total) == [type |-> "dict", val |-> <<debt_name, debt_total>>]

\* x in list
In(x, list) == \E k \in 1..Len(list) : list[k] = x

\* list.remove(x): the first element equal to x is taken out
ListRemove(list, x) ==
    LET first == CHOOSE k \in 1..Len(list) :
                    list[k] = x /\ \A j \in 1..(k - 1) : list[j] # x IN
    SubSeq(list, 1, first - 1) \o SubSeq(list, first + 1, Len(list))

DebtNames == {"credit card", "car loan"}
DebtTotals == {500, 3000}
Choices == {ADD, REMOVE, "swap"}

NoCall == [debt_name |-> "-", debt_total |-> 0, add_or_remove |-> "-"]

\* Budget.__init__ as far as add_remove_debt reads it
BudgetInit ==
    /\ current_debt = <<>>
    /\ debt_call = NoCall
    /\ debt_printed = <<>>

add_remove_debt(debt_name, debt_total, add_or_remove) ==
    /\ debt_call' = [debt_name |-> debt_name, debt_total |-> debt_total,
                     add_or_remove |-> add_or_remove]
    /\ IF add_or_remove = ADD
       THEN /\ Len(current_debt) < MaxDebts
            /\ current_debt' = Append(current_debt, PyDict(debt_name, debt_total))
            /\ debt_printed' = <<>>
       ELSE IF add_or_remove = REMOVE
       THEN IF In(PyStr(debt_name), current_debt)
            THEN /\ current_debt' = ListRemove(current_debt, PyStr(debt_name))
                 /\ debt_printed' = <<>>
            ELSE /\ current_debt' = current_debt
                 /\ debt_printed' = <<"Debt not found.">>
       ELSE /\ current_debt' = current_debt
            /\ debt_printed' = <<"Please enter a valid choice.">>
    /\ UNCHANGED <<stack, raised, string_choice, invoked, requested, printed>>

\* the program starts by calling main_menu()
Init ==
    /\ stack = main_menu.push
    /\ raised = "None"
    /\ string_choice = <<>>
    /\ invoked = <<>>
    /\ requested = <<>>
    /\ printed = main_menu.out
    /\ BudgetInit

Next == \E s \in Inputs : get_user_choice(s)

Spec == Init /\ [][Next]_vars
\* a Budget is made and add_remove_debt is called on it
NextBudget ==
    \E debt_name \in DebtNames, debt_total \in DebtTotals, add_or_remove \in Choices :
        add_remove_debt(debt_name, debt_total, add_or_remove)

SpecBudget == Init /\ [][NextBudget]_vars

(* ------------------- get_user_choice on any option list ---------------- *)
\* the actions an option list handed to get_user_choice may bind
OptionActs == {Collab("create_new_account_interface", "-"), MainMenuAct, ExitAct, TestStr}

\* the option lists of 1..MaxOptions numbered options over OptionActs
OptionLists ==
    UNION {{[k \in 1..n |-> <<k, "Option", acts[k]>>] : acts \in [1..n -> OptionActs]} :
              n \in 1..MaxOptions}

\* get_user_choice(choices_and_funcs) is called on one of the lists
InitAnyMenu ==
    /\ \E choices_and_funcs \in OptionLists :
          stack = <<Frame("Menu", None, choices_and_funcs)>>
    /\ raised = "None"
    /\ string_choice = <<>>
    /\ invoked = <<>>
    /\ requested = <<>>
    /\ printed = <<>>
    /\ BudgetInit

SpecAnyMenu == InitAnyMenu /\ [][Next]_vars

(* ------------------------------ properties ----------------------------- *)
Running == raised = "None"
Options == Top.choices_and_funcs
\* the iteration ended back at the prompt of the same loop
SamePrompt == stack' = stack /\ raised' = "None"

\* C1: at every menu of the registry, the decimal text of an integer i in
\* 1..N selects the option numbered i (list index i-1) and calls exactly that
\* option's action, once, and nothing else.
C1_ValidChoiceInvokesItsAction ==
    [][\A i \in 1..MaxInt :
        (Running /\ i <= Len(Options) /\ string_choice' = Str(i))
        => /\ Options[i][1] = i
           /\ invoked' = <<Invocation(Top.header, i, Options[i][3])>>]_vars

\* a line holding a character that is no numeric character, or no character
NonNumeric(s) == s = <<>> \/ \E k \in 1..Len(s) : s[k] \notin NumericChars

\* C2: a non-numeric line at any prompt prints "Invalid input. Please enter
\* a number.", calls no action, raises nothing, and the next prompt is the
\* same loop's (same menu, same option list, same nesting).
C2_NonNumericReprompts ==
    [][(Running /\ NonNumeric(string_choice'))
        => /\ printed' = <<InvalidInputMsg>>
           /\ invoked' = <<>>
           /\ SamePrompt]_vars

C2_Witness ==
    /\ NonNumeric(string_choice)
    /\ printed = <<InvalidInputMsg>>
    /\ Len(stack) > 1
    /\ Running

\* C3 as claimed: str(i) for every integer i outside 1..N, negative ones
\* included, prints "Invalid choice. Please select a valid number.", calls
\* no action and reprompts at the same menu.
C3_Original ==
    [][\A i \in (0 - MaxNeg)..MaxInt :
        (Running /\ ~(1 <= i /\ i <= Len(Options)) /\ string_choice' = Str(i))
        => /\ printed' = <<InvalidChoiceMsg>>
           /\ invoked' = <<>>
           /\ SamePrompt]_vars

\* C3: str(i) for i = 0 or i > N prints "Invalid choice. Please select a
\* valid number."; str(i) for i < 0 prints "Invalid input. Please enter a
\* number."; either way no action is called and the same menu reprompts.
C3_OutOfRangeReprompts ==
    [][\A i \in (0 - MaxNeg)..MaxInt :
        (Running /\ ~(1 <= i /\ i <= Len(Options)) /\ string_choice' = Str(i))
        => /\ printed' = <<IF i < 0 THEN InvalidInputMsg ELSE InvalidChoiceMsg>>
           /\ invoked' = <<>>
           /\ SamePrompt]_vars

C3_Witness ==
    /\ \E i \in 1..MaxInt : i > Len(Options) /\ string_choice = Str(i)
    /\ printed = <<InvalidChoiceMsg>>
    /\ Len(stack) > 1
    /\ Running

\* C4: choosing "Exit" (3) at the Main Menu ends the session at any nesting
\* depth: exit is called, and afterwards there is no prompt, no action and no
\* resumed outer loop (nothing changes any more).
C4_ExitTerminates ==
    [][/\ Running
       /\ (Top.header = "Main Menu" /\ string_choice' = Str(3))
          => /\ invoked' = <<Invocation("Main Menu", 3, ExitAct)>>
             /\ raised' = "SystemExit"
             /\ stack' = stack]_vars

C4_Witness ==
    /\ raised = "SystemExit"
    /\ Len(stack) > 2
    /\ \E k \in 1..(Len(stack) - 1) : stack[k].header # "Main Menu"

\* C5: in the "Budgeted" menu "1".."4" call nothing, print "'<label>' is not
\* a valid option.", raise nothing and leave the engine at the Budgeted
\* prompt with the same option list.
C5_PlaceholderReported ==
    [][\A i \in 1..4 :
        (Running /\ Top.header = "Budgeted" /\ string_choice' = Str(i))
        => /\ Len(Options) = 5
           /\ invoked' = <<>>
           /\ printed' = <<NotValidOptionMsg(Options[i][2])>>
           /\ SamePrompt]_vars

C5_Witness ==
    /\ Top.header = "Budgeted"
    /\ string_choice = Str(4)
    /\ printed = <<NotValidOptionMsg("Update Budget")>>
    /\ Running
\* the loop the program starts in
InitFrame == Frame("Main Menu", None, menu_holder(None)["Main Menu"])
InitRender == menu_header("Main Menu") \o menu_choices(menu_holder(None)["Main Menu"])

\* C6 as claimed: "Return to Main Menu" from "Create Account" restores the
\* initial root-menu state, the navigation stack (the nesting of menu loops)
\* included, however often the round trip is made.
C6_Original ==
    [][(Running /\ Top.header = "Create Account" /\ string_choice' = Str(2))
        => /\ raised' = "None"
           /\ stack' = <<InitFrame>>]_vars

\* C6: every round trip Main Menu -> "Create Account" -> "Return to Main
\* Menu" ends at a prompt equal to the initial one (Main Menu, its initial
\* option list, no active user, the same rendering), but inside one more loop
\* for the submenu and one more for the Main Menu: the nesting grows by two
\* with each round trip and is never the initial one again.
C6_RoundTripRestoresRootPrompt ==
    [][/\ (Running /\ Top.header = "Create Account" /\ string_choice' = Str(2))
          => /\ raised' = "None"
             /\ stack' = stack \o <<InitFrame>>
             /\ printed' = InitRender
             /\ requested' = <<>>
       /\ (Running /\ Top = InitFrame /\ requested' = <<Request("Create Account", None)>>)
          => /\ raised' = "None"
             /\ stack' = stack \o <<Frame("Create Account", None, menu_holder(None)["Create Account"])>>]_vars

C6_Witness ==
    /\ Len(stack) = 5
    /\ stack[1] = InitFrame /\ stack[3] = InitFrame /\ stack[5] = InitFrame
    /\ stack[2].header = "Create Account" /\ stack[4].header = "Create Account"
    /\ string_choice = Str(2)
    /\ printed = InitRender
    /\ Running

\* the numbers of an option list are its list positions, counted from 1
Contiguous(choices_and_funcs) ==
    /\ {choices_and_funcs[k][1] : k \in 1..Len(choices_and_funcs)} = 1..Len(choices_and_funcs)
    /\ \A k \in 1..Len(choices_and_funcs) : choices_and_funcs[k][1] = k

\* C7: in every menu menu_holder returns, for any active user and for none,
\* the option numbers are exactly 1..len(menu) and the option at list index k
\* (from 0) has number k+1; so the number a menu just rendered shows for an
\* option is the input that selects it.
C7_PositionsContiguous ==
    /\ \A u \in Users \cup {None} : \A m \in DOMAIN menu_holder(u) :
          Contiguous(menu_holder(u)[m])
    /\ \A k \in 1..Len(stack) : Contiguous(stack[k].choices_and_funcs)
    /\ (Len(printed) > 0 /\ printed[1].out = "header")
       => /\ Len(printed) = Len(Options) + 2
          /\ \A i \in 1..Len(Options) :
               /\ printed[i + 1] = Out("choice", i, Options[i][2])
               /\ Select(Options, i)[2] = printed[i + 1].text

C7_Witness ==
    /\ Top.header = "Personal Market Watch"
    /\ Top.active_user \in Users
    /\ Len(printed) = 10
    /\ printed[9] = Out("choice", 8, "Return to Main Menu")

\* C8 as claimed: a valid numeral i surrounded by blanks is taken as the
\* selection i, exactly as the bare numeral is: option i's action is called
\* (nothing is called when option i holds the placeholder).
C8_Original ==
    [][\A i \in 1..MaxPadInt : \A l, r \in 0..MaxPad :
        (Running /\ i <= Len(Options) /\ string_choice' = Blanks(l) \o Str(i) \o Blanks(r))
        => invoked' = IF Callable(Options[i][3])
                      THEN <<Invocation(Top.header, i, Options[i][3])>>
                      ELSE <<>>]_vars

\* C9 as claimed: an exception raised inside a collaborator called by
\* get_user_choice is caught at the call: the loop goes on at the prompt of
\* the same menu and no raw error reaches the terminal.
C9_Original ==
    [][(Running /\ invoked' # <<>> /\ invoked'[1].action.kind = "collab" /\ requested' = <<>>)
        => SamePrompt]_vars

\* C10: menu_maker called with a name that is no key of the registry prints
\* "Menu '<name>' not found." and nothing else, opens no prompt for that name,
\* calls no action and raises nothing; the option that asked for the menu was
\* the only thing called and the engine is back at the prompt that option
\* was chosen at.
C10_MissingMenuReported ==
    /\ \A u \in Users \cup {None} :
          menu_maker(MissingMenu, u).push = <<>> /\ menu_maker(MissingMenu, u).exc = "None"
    /\ [][\A rq \in {Request(MissingMenu, u) : u \in Users \cup {None}} :
           (Running /\ requested' = <<rq>>)
           => /\ rq.menu_key \notin DOMAIN menu_holder(rq.active_user)
              /\ printed' = <<MenuNotFoundMsg(rq.menu_key)>>
              /\ Len(invoked') = 1
              /\ invoked'[1].header = Top.header
              /\ SamePrompt]_vars

C10_Witness ==
    /\ requested = <<Request(MissingMenu, "alice")>>
    /\ printed = <<MenuNotFoundMsg(MissingMenu)>>
    /\ Len(stack) > 1
    /\ Running

\* the registry actions that ask for a menu: lambda: menu_maker(key, user)
\* and main_menu
Navigates(action) == action.kind \in {"menu_maker", "main_menu"}

\* C11: every menu name a registry action asks for ('Bill Tracker',
\* 'Budgeted', 'Personal Market Watch' through menu_maker, 'Main Menu'
\* through main_menu) is a key of the registry menu_holder builds, for every
\* active user; so choosing a navigation option at any reachable menu opens
\* the menu asked for and never prints "Menu ... not found.".
C11_NavigationTargetsExist ==
    /\ \A u \in Users \cup {None} : \A m \in DOMAIN menu_holder(u) :
          \A k \in 1..Len(menu_holder(u)[m]) :
             LET action == menu_holder(u)[m][k][3] IN
             /\ action.kind = "menu_maker" => action.key \in DOMAIN menu_holder(action.arg)
             /\ action.kind = "main_menu" => "Main Menu" \in DOMAIN menu_holder(None)
    /\ [][(Running /\ invoked' # <<>> /\ Navigates(invoked'[1].action))
           => /\ \A k \in 1..Len(printed') : printed'[k].out # "menu_not_found"
              /\ Len(stack') = Len(stack) + 1
              /\ stack'[Len(stack')].header =
                    (IF invoked'[1].action.kind = "main_menu"
                     THEN "Main Menu" ELSE invoked'[1].action.key)
              /\ raised' = "None"]_vars

C11_Witness ==
    /\ invoked # <<>>
    /\ invoked[1].action = MenuMakerAct("Budgeted", "bob")
    /\ requested = <<Request("Budgeted", "bob")>>
    /\ Top.header = "Budgeted"
    /\ Running

\* the action is bound to a user: it closes over active_user
BoundTo(action) == action.arg

\* C12: "Return to Main Menu" chosen at a menu built for user u serves the
\* Main Menu from a registry built with no active user, none of whose options
\* is bound to a user; every action bound to a user is called from a menu
\* built for that user, and from a menu built without a user such a menu is
\* only entered through option 1 "Choose Account" of the Main Menu.
C12_ContextClearedAtRoot ==
    [][/\ (Running /\ invoked' # <<>> /\ invoked'[1].action.kind = "main_menu")
          => /\ stack'[Len(stack')] = InitFrame
             /\ \A k \in 1..Len(InitFrame.choices_and_funcs) :
                   BoundTo(InitFrame.choices_and_funcs[k][3]) \notin Users
       /\ (Running /\ invoked' # <<>> /\ BoundTo(invoked'[1].action) \in Users)
          => /\ Top.active_user = BoundTo(invoked'[1].action)
             /\ Top.header # "Main Menu"
       /\ (Running /\ Top.active_user = None /\ stack'[Len(stack')].active_user \in Users)
          => invoked' = <<Invocation("Main Menu", 1, Collab("display_account_list", "-"))>>]_vars

C12_Witness ==
    /\ Len(stack) > 2
    /\ stack[Len(stack) - 1].active_user \in Users
    /\ Top = InitFrame
    /\ invoked = <<Invocation("Main Menu", 2, Collab("create_new_account_interface", "-"))>>
    /\ Running

\* the line read is the decimal text of a number of the active menu
ValidSelection == \E i \in 1..Len(Options) : string_choice' = Str(i)

\* C13 as claimed: a valid selection has one of three outcomes: the engine
\* stays at the same menu (same loop, same option list), moves to a target
\* menu, or exits; a plain callable that returns leaves the engine at the same
\* menu; the session ends in no other way than by Exit.
C13_Original ==
    [][(Running /\ ValidSelection)
        => /\ \/ SamePrompt
              \/ Len(stack') = Len(stack) + 1 /\ raised' = "None"
              \/ stack' = stack /\ raised' = "SystemExit"
           /\ (invoked' # <<>> /\ invoked'[1].action.kind = "collab"
                 /\ requested' = <<>> /\ raised' = "None") => stack' = stack]_vars

NonRootMenus == {"Create Account", "User Account Menu", "Bill Tracker", "Budgeted",
                 "Personal Market Watch"}

\* C14: at every non-root menu the last option is "Return to Main Menu" and
\* choosing it makes the Main Menu the active menu whatever menus lie below;
\* from 'Bill Tracker' entered through 'User Account Menu' the next active
\* menu is 'Main Menu', not 'User Account Menu'.
C14_ReturnGoesToRoot ==
    [][(Running /\ Top.header \in NonRootMenus /\ string_choice' = Str(Len(Options)))
        => /\ Options[Len(Options)][2] = "Return to Main Menu"
           /\ stack'[Len(stack')].header = "Main Menu"
           /\ stack' = stack \o <<InitFrame>>
           /\ raised' = "None"]_vars

C14_Witness ==
    /\ Len(stack) > 3
    /\ stack[Len(stack) - 2].header = "User Account Menu"
    /\ stack[Len(stack) - 1].header = "Bill Tracker"
    /\ Top.header = "Main Menu"
    /\ string_choice = Str(4)
    /\ invoked = <<Invocation("Bill Tracker", 4, MainMenuAct)>>
    /\ Running

\* C15: the active user is threaded unchanged through the submenus: every
\* loop serves the option list menu_holder builds for its own user; at a menu
\* built for user u every action called that is bound to a user is bound to
\* u, and a submenu opened from it is asked for with u and built for u.
C15_UserThreaded ==
    /\ [](\A k \in 1..Len(stack) :
            stack[k].choices_and_funcs = menu_holder(stack[k].active_user)[stack[k].header])
    /\ [][(Running /\ Top.active_user \in Users /\ invoked' # <<>>)
           => LET action == invoked'[1].action IN
              /\ (action.kind = "collab" /\ BoundTo(action) # "-")
                    => BoundTo(action) = Top.active_user
              /\ action.kind = "menu_maker"
                    => /\ requested' = <<Request(action.key, Top.active_user)>>
                       /\ stack' = stack \o <<Frame(action.key, Top.active_user,
                                                    menu_holder(Top.active_user)[action.key])>>]_vars

C15_Witness ==
    /\ Len(stack) > 2
    /\ stack[Len(stack) - 1].header = "User Account Menu"
    /\ stack[Len(stack) - 1].active_user = "bob"
    /\ Top.header = "Bill Tracker"
    /\ Top.active_user = "bob"
    /\ invoked = <<Invocation("Bill Tracker", 1, Collab("user_add_bill", "bob"))>>
    /\ Running

\* C18: get_user_choice never returns normally: no iteration makes the
\* nesting of menu loops shallower or changes a suspended outer loop; every
\* navigation, "Return to Main Menu" included, opens exactly one new innermost
\* loop, so the nesting grows with every submenu/return round trip.
C18_DepthNeverDecreases ==
    [][/\ Len(stack') >= Len(stack)
       /\ Len(stack') <= Len(stack) + 1
       /\ SubSeq(stack', 1, Len(stack)) = stack
       /\ (invoked' # <<>> /\ Navigates(invoked'[1].action) /\ raised' = "None")
          => Len(stack') = Len(stack) + 1]_vars

C18_Witness ==
    /\ Len(stack) = MaxDepth
    /\ \E k \in 1..Len(stack) : stack[k].header = "User Account Menu"
    /\ \E k \in 2..(Len(stack) - 1) : stack[k] = InitFrame
    /\ invoked # <<>>
    /\ invoked[1].action = MainMenuAct
    /\ Running

\* the option list offers Exit
OffersExit(choices_and_funcs) ==
    \E k \in 1..Len(choices_and_funcs) : choices_and_funcs[k][3] = ExitAct

\* C19: Exit is reachable from every menu the engine can be at: the Main
\* Menu offers "Exit", every other menu has "Return to Main Menu" bound to
\* main_menu as its last option, choosing it leads to a Main Menu prompt and
\* choosing "Exit" there ends the session: at most two valid selections, and
\* no menu is a dead end.
C19_ExitReachable ==
    /\ [](Running =>
            IF Top.header = "Main Menu"
            THEN OffersExit(Options)
            ELSE /\ Options[Len(Options)] = <<Len(Options), "Return to Main Menu", MainMenuAct>>
                 /\ main_menu.push # <<>>
                 /\ OffersExit(main_menu.push[1].choices_and_funcs))
    /\ [][/\ (Running /\ Top.header # "Main Menu" /\ string_choice' = Str(Len(Options)))
             => /\ raised' = "None"
                /\ stack'[Len(stack')] = main_menu.push[1]
          /\ (Running /\ Top.header = "Main Menu" /\ OffersExit(Options)
                /\ \E k \in 1..Len(Options) :
                      Options[k][3] = ExitAct /\ string_choice' = Str(k))
             => raised' = "SystemExit"]_vars

C19_Witness ==
    /\ Len(stack) > 2
    /\ stack[Len(stack) - 1].header = "Personal Market Watch"
    /\ Top.header = "Main Menu"
    /\ invoked = <<Invocation("Main Menu", 3, ExitAct)>>
    /\ raised = "SystemExit"

\* C16 as claimed: at a menu of exactly one option any line read calls that
\* option's action, without the line being checked as a selector.
C16_Original ==
    [][(Running /\ Len(Options) = 1)
        => invoked' = <<Invocation(Top.header, Options[1][1], Options[1][3])>>]_vars

\* current_debt holds an entry for the name
HasDebt(list, debt_name) ==
    \E k \in 1..Len(list) : list[k].type = "dict" /\ list[k].val[1] = debt_name

\* C17 as claimed: add_remove_debt(name, total, REMOVE) right after
\* add_remove_debt(name, total, ADD) leaves no entry for name and the list as
\* it was before the ADD; REMOVE of a name never added changes nothing and
\* prints 'Debt not found.'; any other add_or_remove value changes nothing.
C17_Original ==
    [][/\ (debt_call.add_or_remove = ADD
             /\ debt_call' = [debt_call EXCEPT !.add_or_remove = REMOVE])
          => /\ ~HasDebt(current_debt', debt_call.debt_name)
             /\ current_debt' = SubSeq(current_debt, 1, Len(current_debt) - 1)
       /\ (debt_call'.add_or_remove = REMOVE
             /\ ~HasDebt(current_debt, debt_call'.debt_name))
          => /\ current_debt' = current_debt
             /\ debt_printed' = <<"Debt not found.">>
       /\ debt_call'.add_or_remove \notin {ADD, REMOVE}
          => current_debt' = current_debt]_vars
====
